---- MODULE Spec2Model ----
(***************************************************************************)
(* Model of the Clerk webhook handler of hookdeck/xata-per-user-db: the    *)
(* POST route with Hookdeck signature verification, the Xata database      *)
(* existence check, the ip-api region selection and the createDatabase     *)
(* call.  Each delivery is one invocation of POST; an action is the part   *)
(* of the handler that runs between two awaits of a remote call.  The Xata *)
(* workspace, the ip-api service and the Hookdeck gateway are the          *)
(* environment.                                                            *)
(***************************************************************************)
EXTENDS Integers, Sequences, FiniteSets, TLC

\* Number of delivery slots the gateway uses concurrently.
NumDeliveries == 2

Deliveries == 1..NumDeliveries

\* Identity keys (event.data.id values) used by the deliveries.
Keys == {"user_a", "user_b"}

\* The name the create call carries when event.data.id is undefined.
UndefinedName == "undefined"

\* data.id of an event that is not about a user.
SessionId == "sess_1"

Names == Keys \cup {UndefinedName, SessionId}

DefaultRegion == "us-east-1"

Regions == {"us-east-1", "eu-west-1", "ap-southeast-2"}

\* continentCode values of the ip-api answer; "none" is an answer without one.
ContinentCodes == {"EU", "OC", "NA", "none"}

\* Requests the gateway (or anybody else) can POST.  sig is the outcome of
\* verifying the signature headers against the raw body; body is the shape
\* of the raw body; id is data.id; ip tells whether
\* event_attributes.http_request.client_ip can be read.
Requests ==
    {[sig |-> "valid", body |-> "ok", id |-> "user_a", ip |-> "present"],
     [sig |-> "valid", body |-> "ok", id |-> "user_b", ip |-> "absent"],
     [sig |-> "valid", body |-> "notype", id |-> "user_a", ip |-> "absent"],
     [sig |-> "valid", body |-> "notjson", id |-> "none", ip |-> "absent"],
     [sig |-> "valid", body |-> "nodata", id |-> "none", ip |-> "absent"],
     [sig |-> "valid", body |-> "noid", id |-> "none", ip |-> "absent"],
     [sig |-> "invalid", body |-> "ok", id |-> "user_a", ip |-> "present"],
     [sig |-> "missing", body |-> "ok", id |-> "user_a", ip |-> "present"]}

\* A session.created event of Clerk, as the gateway would sign and forward it.
SessionEvent ==
    [sig |-> "valid", body |-> "other", id |-> SessionId, ip |-> "absent"]

\* What Clerk sends to the gateway source.
ClerkEvents ==
    {r \in Requests : r.sig = "valid" /\ r.body = "ok"} \cup {SessionEvent}

\* the type field of the body
EventType(r) ==
    CASE r.body = "ok" -> "user.created"
      [] r.body = "other" -> "session.created"
      [] OTHER -> "none"

\* A connection without the filter rule.
PassesFilter_NoRule(r) == TRUE

\* rules: [{ type: "filter", body: { type: "user.created" } }]
PassesFilter(r) == EventType(r) = "user.created"

\* What reaches the handler through the gateway alone: the events of Clerk
\* that pass the filter of the connection, signed by the gateway.
GatewayRequests == {r \in ClerkEvents : PassesFilter(r)}

NoRequest == [sig |-> "none", body |-> "none", id |-> "none", ip |-> "absent"]

NoResponse == [status |-> 0, body |-> "none"]

NoCalls == [list |-> 0, geo |-> 0, create |-> 0]

\* const rawBody = await request.text()
RawBody(r) == [body |-> r.body, id |-> r.id, ip |-> r.ip]

NoBody == RawBody(NoRequest)

VARIABLES
    databases,  \* the Xata workspace: name -> regions of the databases so named
    pc,         \* per delivery: idle, list, geo, create (call in flight), done
    hung,       \* per delivery: the call in flight will never return
    req,        \* per delivery: the request being handled
    dbRegion,   \* per delivery: the handler's local dbRegion
    listed,     \* per delivery: what dbList.databases.find gave
    resp,       \* per delivery: the response returned
    calls,      \* per delivery: remote calls issued by this invocation
    err,        \* per delivery: what was caught by the outer catch
    redelivered, \* per delivery: the gateway has delivered the request again
    lookup,     \* per delivery: how the region lookup of the create call in
                \* flight ended: unset, skipped, failed or the continentCode
    program,    \* the module this process runs: the route or scripts/setup.ts
    env,        \* the environment variables that are set
    proc,       \* the process: unloaded, serving, exit1 (process.exit(1)), done
    upsert,     \* the connection upsert request: none, inflight, ok, failed
    setupLog,   \* what scripts/setup.ts has logged after its checks
    verified,   \* per delivery: the rawBody verifyWebhookSignature accepted
    event       \* per delivery: the string this invocation has decoded

\* the state of the process outside the handler's invocations
startup == <<program, env, proc, upsert, setupLog>>

\* what the invocation has verified and decoded
decoding == <<verified, event>>

vars == <<databases, pc, hung, req, dbRegion, listed, resp, calls, err,
          redelivered, lookup, program, env, proc, upsert, setupLog,
          verified, event>>

----------------------------------------------------------------------------
(* Pure parts of the handler *)

\* A verifier that only checks that the signature header is there.
IsValidSignature_HeaderPresent(r) == r.sig # "missing"

\* verificationResult.isValidSignature
IsValidSignature(r) == r.sig = "valid"

\* JSON.parse(rawBody) returns
ParseOk(r) == r.body # "notjson"

\* event.data is an object
HasData(r) == r.body \in {"ok", "other", "notype", "noid"}

\* event.data.id is a string
HasId(r) == r.body \in {"ok", "other", "notype"}

\* A find whose comparison never matches.
FindDb_NeverMatches(names, r) ==
    IF names = {} THEN "absent"
    ELSE IF ~HasData(r) THEN "throw"
    ELSE "absent"

\* A handler that remembers the keys it has created and trusts its memory.
FindDb_Remembers(names, r) ==
    IF HasId(r) /\ \E o \in Deliveries :
                      resp[o].body = "createResult" /\ req[o].id = r.id
    THEN "found"
    ELSE IF names = {} THEN "absent"
    ELSE IF ~HasData(r) THEN "throw"
    ELSE IF HasId(r) /\ r.id \in names THEN "found"
    ELSE "absent"

\* A find whose callback assigns instead of comparing: any database matches.
FindDb_AnyDb(names, r) ==
    IF names = {} THEN "absent"
    ELSE IF ~HasData(r) THEN "throw"
    ELSE "found"

\* A find that compares with startsWith on the common prefix of the ids:
\* the database of any user matches.
FindDb_Prefix(names, r) ==
    IF names = {} THEN "absent"
    ELSE IF ~HasData(r) THEN "throw"
    ELSE IF HasId(r) /\ names \cap Keys # {} THEN "found"
    ELSE "absent"

\* dbList.databases.find((db) => db.name === event.data.id): the callback
\* runs only on a non-empty list and throws when event.data is undefined.
FindDb(names, r) ==
    IF names = {} THEN "absent"
    ELSE IF ~HasData(r) THEN "throw"
    ELSE IF HasId(r) /\ r.id \in names THEN "found"
    ELSE "absent"

\* A switch whose EU case lacks its break.
RegionFor_FallsThrough(code) ==
    CASE code = "EU" -> "ap-southeast-2"
      [] code = "OC" -> "ap-southeast-2"
      [] OTHER -> DefaultRegion

\* switch (ipLookupData.continentCode)
RegionFor(code) ==
    CASE code = "EU" -> "eu-west-1"
      [] code = "OC" -> "ap-southeast-2"
      [] OTHER -> DefaultRegion

\* A create call named after something else than data.id.
CreateName_NotTheId(r) == UndefinedName

\* pathParams.dbName of the create call
CreateName(r) == IF HasId(r) THEN r.id ELSE UndefinedName

\* status of NextResponse.json(createResult)
Is2xx(s) == s >= 200 /\ s < 300

----------------------------------------------------------------------------
(* The Xata workspace *)

DbNames(dbs) == {n \in Names : Len(dbs[n]) > 0}

\* A create call that provisions again under a name that exists.
BackendCreate_Duplicates(dbs, n, region) ==
    [ok |-> TRUE, dbs |-> [dbs EXCEPT ![n] = Append(@, region)]]

\* A create call that acts as an upsert: the database of a name that exists
\* is moved to the region of the call.
BackendCreate_Upsert(dbs, n, region) ==
    [ok |-> TRUE, dbs |-> [dbs EXCEPT ![n] = <<region>>]]

\* createDatabase at the backend: a name that exists is rejected.
BackendCreate(dbs, n, region) ==
    IF Len(dbs[n]) > 0
    THEN [ok |-> FALSE, dbs |-> dbs]
    ELSE [ok |-> TRUE, dbs |-> [dbs EXCEPT ![n] = Append(@, region)]]

----------------------------------------------------------------------------
(* Module initialisation *)

RouteVars == {"HOOKDECK_WEBHOOK_SECRET", "XATA_API_KEY", "XATA_WORKSPACE_ID"}

SetupVars == {"HOOKDECK_API_KEY", "CLERK_WEBHOOK_SECRET"}

\* A route module that forgets to check the workspace id.
RouteConfigured_NoWorkspaceCheck(e) ==
    "HOOKDECK_WEBHOOK_SECRET" \in e /\ "XATA_API_KEY" \in e

\* none of the three checks of the route module exits
RouteConfigured(e) ==
    /\ "HOOKDECK_WEBHOOK_SECRET" \in e
    /\ "XATA_API_KEY" \in e
    /\ "XATA_WORKSPACE_ID" \in e

\* none of the two checks of scripts/setup.ts exits
SetupConfigured(e) ==
    /\ "HOOKDECK_API_KEY" \in e
    /\ "CLERK_WEBHOOK_SECRET" \in e

----------------------------------------------------------------------------
\* no delivery yet, an empty workspace
HandlerInit ==
    /\ databases = [n \in Names |-> <<>>]
    /\ pc = [d \in Deliveries |-> "idle"]
    /\ hung = [d \in Deliveries |-> FALSE]
    /\ req = [d \in Deliveries |-> NoRequest]
    /\ dbRegion = [d \in Deliveries |-> DefaultRegion]
    /\ listed = [d \in Deliveries |-> "none"]
    /\ resp = [d \in Deliveries |-> NoResponse]
    /\ calls = [d \in Deliveries |-> NoCalls]
    /\ err = [d \in Deliveries |-> "none"]
    /\ redelivered = [d \in Deliveries |-> FALSE]
    /\ lookup = [d \in Deliveries |-> "unset"]
    /\ verified = [d \in Deliveries |-> NoBody]
    /\ event = [d \in Deliveries |-> NoBody]

\* the route module has loaded with its configuration and serves
Init ==
    /\ HandlerInit
    /\ program = "route"
    /\ env = RouteVars
    /\ proc = "serving"
    /\ upsert = "none"
    /\ setupLog = {}

\* return NextResponse.json(body, {status}); the invocation's locals die.
Respond(d, status, body, cause) ==
    /\ pc' = [pc EXCEPT ![d] = "done"]
    /\ resp' = [resp EXCEPT ![d] = [status |-> status, body |-> body]]
    /\ err' = [err EXCEPT ![d] = cause]
    /\ dbRegion' = [dbRegion EXCEPT ![d] = DefaultRegion]
    /\ lookup' = [lookup EXCEPT ![d] = "unset"]

\* An outer catch that forgets the status option.
Respond500_DefaultStatus(d, cause) == Respond(d, 200, "error", cause)

\* the outer catch
Respond500(d, cause) == Respond(d, 500, "error", cause)

\* A handler that takes a claim on the key: while another invocation for
\* the same data.id is under way it answers without listing.
Receive_Claimed(d, r) ==
    /\ proc = "serving"
    /\ UNCHANGED startup
    /\ verified' = [verified EXCEPT ![d] =
                       IF IsValidSignature(r) THEN RawBody(r) ELSE NoBody]
    /\ event' = [event EXCEPT ![d] =
                    IF IsValidSignature(r) THEN RawBody(r) ELSE NoBody]
    /\ req' = [req EXCEPT ![d] = r]
    /\ hung' = [hung EXCEPT ![d] = FALSE]
    /\ listed' = [listed EXCEPT ![d] = "none"]
    /\ UNCHANGED databases
    /\ IF ~IsValidSignature(r)
       THEN /\ Respond(d, 401, "Invalid signature", "none")
            /\ calls' = [calls EXCEPT ![d] = NoCalls]
       ELSE IF ~ParseOk(r)
       THEN /\ Respond500(d, "parse")
            /\ calls' = [calls EXCEPT ![d] = NoCalls]
       ELSE IF \E o \in Deliveries \ {d} :
                   pc[o] \in {"list", "geo", "create"} /\ req[o].id = r.id
       THEN /\ Respond(d, 200, "User DB already exists", "none")
            /\ calls' = [calls EXCEPT ![d] = NoCalls]
       ELSE /\ pc' = [pc EXCEPT ![d] = "list"]
            /\ calls' = [calls EXCEPT ![d] = [NoCalls EXCEPT !.list = 1]]
            /\ resp' = [resp EXCEPT ![d] = NoResponse]
            /\ err' = [err EXCEPT ![d] = "none"]
            /\ dbRegion' = [dbRegion EXCEPT ![d] = DefaultRegion]
            /\ lookup' = [lookup EXCEPT ![d] = "unset"]

\* A handler that decodes the body first and verifies afterwards.
Receive_ParsesFirst(d, r) ==
    /\ proc = "serving"
    /\ UNCHANGED startup
    /\ verified' = [verified EXCEPT ![d] =
                       IF ParseOk(r) /\ IsValidSignature(r)
                       THEN RawBody(r) ELSE NoBody]
    /\ event' = [event EXCEPT ![d] = RawBody(r)]
    /\ req' = [req EXCEPT ![d] = r]
    /\ hung' = [hung EXCEPT ![d] = FALSE]
    /\ listed' = [listed EXCEPT ![d] = "none"]
    /\ UNCHANGED databases
    /\ IF ~ParseOk(r)
       THEN /\ Respond500(d, "parse")
            /\ calls' = [calls EXCEPT ![d] = NoCalls]
       ELSE IF ~IsValidSignature(r)
       THEN /\ Respond(d, 401, "Invalid signature", "none")
            /\ calls' = [calls EXCEPT ![d] = NoCalls]
       ELSE /\ pc' = [pc EXCEPT ![d] = "list"]
            /\ calls' = [calls EXCEPT ![d] = [NoCalls EXCEPT !.list = 1]]
            /\ resp' = [resp EXCEPT ![d] = NoResponse]
            /\ err' = [err EXCEPT ![d] = "none"]
            /\ dbRegion' = [dbRegion EXCEPT ![d] = DefaultRegion]
            /\ lookup' = [lookup EXCEPT ![d] = "unset"]

\* POST from its entry to the await of getDatabaseList: the body is read
\* once as text, verified, and the same string is decoded
Receive(d, r) ==
    /\ proc = "serving"
    /\ UNCHANGED startup
    /\ verified' = [verified EXCEPT ![d] =
                       IF IsValidSignature(r) THEN RawBody(r) ELSE NoBody]
    /\ event' = [event EXCEPT ![d] =
                    IF IsValidSignature(r) THEN RawBody(r) ELSE NoBody]
    /\ req' = [req EXCEPT ![d] = r]
    /\ hung' = [hung EXCEPT ![d] = FALSE]
    /\ listed' = [listed EXCEPT ![d] = "none"]
    /\ UNCHANGED databases
    /\ IF ~IsValidSignature(r)
       THEN /\ Respond(d, 401, "Invalid signature", "none")
            /\ calls' = [calls EXCEPT ![d] = NoCalls]
       ELSE IF ~ParseOk(r)
       THEN /\ Respond500(d, "parse")
            /\ calls' = [calls EXCEPT ![d] = NoCalls]
       ELSE /\ pc' = [pc EXCEPT ![d] = "list"]
            /\ calls' = [calls EXCEPT ![d] = [NoCalls EXCEPT !.list = 1]]
            /\ resp' = [resp EXCEPT ![d] = NoResponse]
            /\ err' = [err EXCEPT ![d] = "none"]
            /\ dbRegion' = [dbRegion EXCEPT ![d] = DefaultRegion]
            /\ lookup' = [lookup EXCEPT ![d] = "unset"]

\* a request arrives on an unused slot
Deliver(d) ==
    /\ pc[d] = "idle"
    /\ \E r \in Requests : Receive(d, r)
    /\ UNCHANGED redelivered

\* the gateway forwards an event on an unused slot
Forward(d) ==
    /\ pc[d] = "idle"
    /\ \E r \in GatewayRequests : Receive(d, r)
    /\ UNCHANGED redelivered

\* the gateway redelivers a request that was answered with a non-2xx status
Retry(d) ==
    /\ pc[d] = "done"
    /\ ~Is2xx(resp[d].status)
    /\ Receive(d, req[d])
    /\ redelivered' = [redelivered EXCEPT ![d] = TRUE]

\* A create call sent through a helper that sends the request a second time
\* without waiting for the first answer.
IssueCreate_Twice(d, region, outcome) ==
    IF ~HasData(req[d])
    THEN /\ Respond500(d, "typeerror")
         /\ UNCHANGED calls
    ELSE /\ pc' = [pc EXCEPT ![d] = "create"]
         /\ dbRegion' = [dbRegion EXCEPT ![d] = region]
         /\ lookup' = [lookup EXCEPT ![d] = outcome]
         /\ calls' = [calls EXCEPT ![d].create = @ + 2]
         /\ UNCHANGED <<resp, err>>

\* const createResult = await xata.databases.createDatabase(...): building
\* the arguments reads event.data.id, which throws when event.data is
\* undefined.  outcome tells how the region lookup before it ended.
IssueCreate(d, region, outcome) ==
    IF ~HasData(req[d])
    THEN /\ Respond500(d, "typeerror")
         /\ UNCHANGED calls
    ELSE /\ pc' = [pc EXCEPT ![d] = "create"]
         /\ dbRegion' = [dbRegion EXCEPT ![d] = region]
         /\ lookup' = [lookup EXCEPT ![d] = outcome]
         /\ calls' = [calls EXCEPT ![d].create = @ + 1]
         /\ UNCHANGED <<resp, err>>

\* getDatabaseList resolves: the find, then either the 200 or the start of
\* the region lookup.
ListReturn(d) ==
    /\ pc[d] = "list"
    /\ ~hung[d]
    /\ LET f == FindDb(DbNames(databases), req[d]) IN
       /\ listed' = [listed EXCEPT ![d] = IF f = "throw" THEN "none" ELSE f]
       /\ CASE f = "throw" ->
                 /\ Respond500(d, "typeerror")
                 /\ UNCHANGED calls
            [] f = "found" ->
                 /\ Respond(d, 200, "User DB already exists", "none")
                 /\ UNCHANGED calls
            [] OTHER ->
                 IF req[d].ip = "present"
                 THEN /\ pc' = [pc EXCEPT ![d] = "geo"]
                      /\ calls' = [calls EXCEPT ![d].geo = @ + 1]
                      /\ UNCHANGED <<resp, err, dbRegion, lookup>>
                 ELSE IssueCreate(d, DefaultRegion, "skipped")
    /\ UNCHANGED <<databases, hung, req, redelivered>>
    /\ UNCHANGED startup
    /\ UNCHANGED decoding

\* A handler that logs the rejected list call and goes on to create.
ListFail_GoesOn(d) ==
    /\ pc[d] = "list"
    /\ ~hung[d]
    /\ pc' = [pc EXCEPT ![d] = "create"]
    /\ calls' = [calls EXCEPT ![d].create = @ + 1]
    /\ err' = [err EXCEPT ![d] = "list"]
    /\ UNCHANGED <<databases, hung, req, listed, resp, dbRegion, redelivered,
                   lookup>>
    /\ UNCHANGED startup
    /\ UNCHANGED decoding

\* A catch that tries the create on its own before it answers 500.
ListFail_Provisions(d) ==
    /\ pc[d] = "list"
    /\ ~hung[d]
    /\ Respond500(d, "list")
    /\ databases' =
          BackendCreate(databases, CreateName(req[d]), DefaultRegion).dbs
    /\ UNCHANGED <<hung, req, listed, calls, redelivered>>
    /\ UNCHANGED startup
    /\ UNCHANGED decoding

\* getDatabaseList rejects
ListFail(d) ==
    /\ pc[d] = "list"
    /\ ~hung[d]
    /\ Respond500(d, "list")
    /\ UNCHANGED <<databases, hung, req, listed, calls, redelivered>>
    /\ UNCHANGED startup
    /\ UNCHANGED decoding

\* fetch and ipLookupResponse.json() resolve
GeoReturn(d) ==
    /\ pc[d] = "geo"
    /\ ~hung[d]
    /\ \E code \in ContinentCodes : IssueCreate(d, RegionFor(code), code)
    /\ UNCHANGED <<databases, hung, req, listed, redelivered>>
    /\ UNCHANGED startup
    /\ UNCHANGED decoding

\* A lookup without its own try/catch: the rejection reaches the outer catch.
GeoFail_Propagates(d) ==
    /\ pc[d] = "geo"
    /\ ~hung[d]
    /\ Respond500(d, "geo")
    /\ UNCHANGED <<databases, hung, req, listed, calls, redelivered>>
    /\ UNCHANGED startup
    /\ UNCHANGED decoding

\* A handler whose dbRegion is declared at module level: after a failed
\* lookup the create call uses what another invocation has left in it.
GeoFail_SharedRegion(d) ==
    /\ pc[d] = "geo"
    /\ ~hung[d]
    /\ LET others == {dbRegion[o] : o \in Deliveries \ {d}} \ {DefaultRegion}
       IN IssueCreate(d, IF others = {} THEN DefaultRegion
                         ELSE CHOOSE g \in others : TRUE, "failed")
    /\ UNCHANGED <<databases, hung, req, listed, redelivered>>
    /\ UNCHANGED startup
    /\ UNCHANGED decoding

\* fetch or ipLookupResponse.json() rejects: the inner catch
GeoFail(d) ==
    /\ pc[d] = "geo"
    /\ ~hung[d]
    /\ IssueCreate(d, DefaultRegion, "failed")
    /\ UNCHANGED <<databases, hung, req, listed, redelivered>>
    /\ UNCHANGED startup
    /\ UNCHANGED decoding

\* createDatabase is answered by the backend
CreateReturn(d) ==
    /\ pc[d] = "create"
    /\ ~hung[d]
    /\ LET res == BackendCreate(databases, CreateName(req[d]), dbRegion[d]) IN
       /\ databases' = res.dbs
       /\ IF res.ok
          THEN Respond(d, 200, "createResult", "none")
          ELSE Respond500(d, "dup")
    /\ UNCHANGED <<hung, req, listed, calls, redelivered>>
    /\ UNCHANGED startup
    /\ UNCHANGED decoding

\* A create call whose rejection is dropped: the handler answers 200.
CreateFail_Swallowed(d) ==
    /\ pc[d] = "create"
    /\ ~hung[d]
    /\ Respond(d, 200, "createResult", "create")
    /\ UNCHANGED <<databases, hung, req, listed, calls, redelivered>>
    /\ UNCHANGED startup
    /\ UNCHANGED decoding

\* A handler without the outer try: the rejection escapes and the framework
\* answers for it.
CreateFail_Escapes(d) ==
    /\ pc[d] = "create"
    /\ ~hung[d]
    /\ Respond(d, 500, "Internal Server Error", "create")
    /\ UNCHANGED <<databases, hung, req, listed, calls, redelivered>>
    /\ UNCHANGED startup
    /\ UNCHANGED decoding

\* createDatabase rejects for a reason that passes (network, 5xx)
CreateFail(d) ==
    /\ pc[d] = "create"
    /\ ~hung[d]
    /\ Respond500(d, "create")
    /\ UNCHANGED <<databases, hung, req, listed, calls, redelivered>>
    /\ UNCHANGED startup
    /\ UNCHANGED decoding

\* createDatabase rejects for a reason that does not pass (quota, invalid
\* region, authentication); the handler treats it like any other error
CreateReject(d) ==
    /\ pc[d] = "create"
    /\ ~hung[d]
    /\ Respond500(d, "fatal")
    /\ UNCHANGED <<databases, hung, req, listed, calls, redelivered>>
    /\ UNCHANGED startup
    /\ UNCHANGED decoding

\* the remote call in flight never settles; no await of the handler has a
\* timeout
Hang(d) ==
    /\ pc[d] \in {"list", "geo", "create"}
    /\ ~hung[d]
    /\ hung' = [hung EXCEPT ![d] = TRUE]
    /\ UNCHANGED <<databases, pc, req, dbRegion, listed, resp, calls, err,
                   redelivered, lookup>>
    /\ UNCHANGED startup
    /\ UNCHANGED decoding

\* somebody else creates or deletes a database of the workspace
OobCreate ==
    /\ \E n \in Keys :
          LET res == BackendCreate(databases, n, DefaultRegion) IN
          /\ res.ok
          /\ databases' = res.dbs
    /\ UNCHANGED <<pc, hung, req, dbRegion, listed, resp, calls, err,
                   redelivered, lookup>>
    /\ UNCHANGED startup
    /\ UNCHANGED decoding

OobDelete ==
    /\ \E n \in Names :
          /\ Len(databases[n]) > 0
          /\ databases' = [databases EXCEPT ![n] = Tail(@)]
    /\ UNCHANGED <<pc, hung, req, dbRegion, listed, resp, calls, err,
                   redelivered, lookup>>
    /\ UNCHANGED startup
    /\ UNCHANGED decoding

\* The handler under every behaviour of its environment: failing and
\* hanging remote calls and other writers of the workspace.  A request the
\* gateway sends again is a delivery of the same request on another slot.
Next ==
    \/ \E d \in Deliveries : Deliver(d)
    \/ \E d \in Deliveries : ListReturn(d)
    \/ \E d \in Deliveries : ListFail(d)
    \/ \E d \in Deliveries : GeoReturn(d)
    \/ \E d \in Deliveries : GeoFail(d)
    \/ \E d \in Deliveries : CreateReturn(d)
    \/ \E d \in Deliveries : CreateFail(d)
    \/ \E d \in Deliveries : CreateReject(d)
    \/ \E d \in Deliveries : Hang(d)
    \/ OobCreate
    \/ OobDelete

Spec == Init /\ [][Next]_vars

\* the route module is loaded: three checks, then the handler is exported
LoadRoute ==
    /\ program = "route"
    /\ proc = "unloaded"
    /\ proc' = IF RouteConfigured(env) THEN "serving" ELSE "exit1"
    /\ UNCHANGED <<databases, pc, hung, req, dbRegion, listed, resp, calls,
                   err, redelivered, lookup, program, env, upsert, setupLog,
                   verified, event>>

\* scripts/setup.ts runs: two checks, then main() issues the upsert without
\* awaiting it, its promise resolves and the then callback logs
LoadSetup ==
    /\ program = "setup"
    /\ proc = "unloaded"
    /\ IF SetupConfigured(env)
       THEN /\ proc' = "done"
            /\ upsert' = "inflight"
            /\ setupLog' = setupLog \cup {"Hookdeck connection setup complete"}
       ELSE /\ proc' = "exit1"
            /\ UNCHANGED <<upsert, setupLog>>
    /\ UNCHANGED <<databases, pc, hung, req, dbRegion, listed, resp, calls,
                   err, redelivered, lookup, program, env, verified, event>>

\* the upsert request is answered; nothing of the script waits for it
UpsertSettles ==
    /\ upsert = "inflight"
    /\ \E outcome \in {"ok", "failed"} : upsert' = outcome
    /\ UNCHANGED <<databases, pc, hung, req, dbRegion, listed, resp, calls,
                   err, redelivered, lookup, program, env, proc, setupLog,
                   verified, event>>

\* a process is started on one of the two modules with any subset of that
\* module's mandatory variables set
StartupInit ==
    /\ HandlerInit
    /\ program \in {"route", "setup"}
    /\ env \in SUBSET (IF program = "route" THEN RouteVars ELSE SetupVars)
    /\ proc = "unloaded"
    /\ upsert = "none"
    /\ setupLog = {}

StartupNext ==
    \/ LoadRoute
    \/ LoadSetup
    \/ UpsertSettles
    \/ Next

StartupSpec == StartupInit /\ [][StartupNext]_vars

----------------------------------------------------------------------------
(* The earlier versions of the handler: src/app/webhooks/clerk/route.ts,
   which lists and creates, and the version that adds the find. *)

EarlierVersions == {"clerk/route.ts", "part_002"}

\* the find is in the second version, not in clerk/route.ts
HasExistenceCheck(v) == v = "part_002"

\* POST from its entry to the await of getDatabaseList: request.json(), no
\* header is read
EarlyReceive(d, r) ==
    /\ proc = "serving"
    /\ program \in EarlierVersions
    /\ UNCHANGED startup
    /\ verified' = [verified EXCEPT ![d] = NoBody]
    /\ event' = [event EXCEPT ![d] = RawBody(r)]
    /\ req' = [req EXCEPT ![d] = r]
    /\ hung' = [hung EXCEPT ![d] = FALSE]
    /\ listed' = [listed EXCEPT ![d] = "none"]
    /\ UNCHANGED databases
    /\ IF ~ParseOk(r)
       THEN /\ Respond500(d, "parse")
            /\ calls' = [calls EXCEPT ![d] = NoCalls]
       ELSE /\ pc' = [pc EXCEPT ![d] = "list"]
            /\ calls' = [calls EXCEPT ![d] = [NoCalls EXCEPT !.list = 1]]
            /\ resp' = [resp EXCEPT ![d] = NoResponse]
            /\ err' = [err EXCEPT ![d] = "none"]
            /\ dbRegion' = [dbRegion EXCEPT ![d] = DefaultRegion]
            /\ lookup' = [lookup EXCEPT ![d] = "unset"]

\* a request arrives on an unused slot of an earlier version
EarlyDeliver(d) ==
    /\ pc[d] = "idle"
    /\ \E r \in Requests : EarlyReceive(d, r)
    /\ UNCHANGED redelivered

\* getDatabaseList resolves: the list is logged; the second version runs
\* the find, clerk/route.ts goes straight to createDatabase with us-east-1
EarlyListReturn(d) ==
    /\ pc[d] = "list"
    /\ ~hung[d]
    /\ program \in EarlierVersions
    /\ LET f == IF HasExistenceCheck(program)
                THEN FindDb(DbNames(databases), req[d])
                ELSE "none" IN
       /\ listed' = [listed EXCEPT ![d] = IF f = "throw" THEN "none" ELSE f]
       /\ CASE f = "throw" ->
                 /\ Respond500(d, "typeerror")
                 /\ UNCHANGED calls
            [] f = "found" ->
                 /\ Respond(d, 200, "User DB already exists", "none")
                 /\ UNCHANGED calls
            [] OTHER -> IssueCreate(d, DefaultRegion, "skipped")
    /\ UNCHANGED <<databases, hung, req, redelivered>>
    /\ UNCHANGED startup
    /\ UNCHANGED decoding

\* an earlier version serves with its two variables set
VersionsInit ==
    /\ HandlerInit
    /\ program \in EarlierVersions
    /\ env = {"XATA_API_KEY", "XATA_WORKSPACE_ID"}
    /\ proc = "serving"
    /\ upsert = "none"
    /\ setupLog = {}

\* the list and create calls and the outer catch are those of the full
\* handler
VersionsNext ==
    \/ \E d \in Deliveries : EarlyDeliver(d)
    \/ \E d \in Deliveries : EarlyListReturn(d)
    \/ \E d \in Deliveries : ListFail(d)
    \/ \E d \in Deliveries : CreateReturn(d)
    \/ \E d \in Deliveries : CreateFail(d)

VersionsSpec == VersionsInit /\ [][VersionsNext]_vars

\* A remote call that is not hung settles, and the handler then runs on.
Settle(d) ==
    \/ ListReturn(d)
    \/ ListFail(d)
    \/ GeoReturn(d)
    \/ GeoFail(d)
    \/ CreateReturn(d)
    \/ CreateFail(d)
    \/ CreateReject(d)

FairSpec == Spec /\ \A d \in Deliveries : WF_vars(Settle(d))

\* The invocations alone, with remote calls that all return or fail.
ReturningNext ==
    \/ \E d \in Deliveries : Deliver(d)
    \/ \E d \in Deliveries : ListReturn(d)
    \/ \E d \in Deliveries : ListFail(d)
    \/ \E d \in Deliveries : GeoReturn(d)
    \/ \E d \in Deliveries : GeoFail(d)
    \/ \E d \in Deliveries : CreateReturn(d)
    \/ \E d \in Deliveries : CreateFail(d)
    \/ \E d \in Deliveries : CreateReject(d)

ReturningSpec ==
    /\ Init
    /\ [][ReturningNext]_vars
    /\ \A d \in Deliveries : WF_vars(Settle(d))

\* The handler behind the gateway: the gateway is the only sender and the
\* handler the only writer of the workspace, every remote call settles, and
\* a request answered with a non-2xx status is delivered again.
LiveNext ==
    \/ \E d \in Deliveries : Forward(d)
    \/ \E d \in Deliveries : Retry(d)
    \/ \E d \in Deliveries : ListReturn(d)
    \/ \E d \in Deliveries : ListFail(d)
    \/ \E d \in Deliveries : GeoReturn(d)
    \/ \E d \in Deliveries : GeoFail(d)
    \/ \E d \in Deliveries : CreateReturn(d)
    \/ \E d \in Deliveries : CreateFail(d)

GatewaySpec == Init /\ [][LiveNext]_vars

\* At-least-once delivery (WF on Retry), and list and create calls that
\* eventually succeed (SF on their successful return).
LiveSpec ==
    /\ GatewaySpec
    /\ \A d \in Deliveries :
          /\ WF_vars(Retry(d) \/ GeoReturn(d) \/ GeoFail(d))
          /\ SF_vars(ListReturn(d))
          /\ SF_vars(CreateReturn(d))

TypeOK ==
    /\ \A n \in Names : databases[n] \in Seq(Regions)
    /\ \A d \in Deliveries :
          /\ pc[d] \in {"idle", "list", "geo", "create", "done"}
          /\ hung[d] \in BOOLEAN
          /\ req[d] \in Requests \cup ClerkEvents \cup {NoRequest}
          /\ dbRegion[d] \in Regions
          /\ listed[d] \in {"none", "found", "absent"}
          /\ resp[d].status \in {0, 200, 401, 500}
          /\ err[d] \in {"none", "parse", "typeerror", "list", "dup", "create", "fatal"}
          /\ redelivered[d] \in BOOLEAN
          /\ lookup[d] \in {"unset", "skipped", "failed"} \cup ContinentCodes
          /\ verified[d] \in {NoBody, RawBody(req[d])}
          /\ event[d] \in {NoBody, RawBody(req[d])}
    /\ program \in {"route", "setup"} \cup EarlierVersions
    /\ env \subseteq RouteVars \cup SetupVars
    /\ proc \in {"unloaded", "serving", "exit1", "done"}
    /\ upsert \in {"none", "inflight", "ok", "failed"}
    /\ setupLog \subseteq {"Hookdeck connection setup complete",
                            "Hookdeck connection setup failed"}

----------------------------------------------------------------------------
(* Claims *)

\* a validly signed, well-formed creation event for key k
IsCreationEventFor(r, k) == r.sig = "valid" /\ r.body = "ok" /\ r.id = k

Started == {d \in Deliveries : pc[d] # "idle"}

\* C1: when n >= 1 validly signed deliveries of the creation event for k,
\* and no other request, have all completed without a transient failure of
\* a remote call, exactly one database named k exists and every delivery
\* has received a 2xx response.
C1_ExactlyOneAndAll2xx ==
    \A k \in Keys :
        ( /\ Started # {}
          /\ \A d \in Started :
                /\ IsCreationEventFor(req[d], k)
                /\ pc[d] = "done"
                /\ err[d] \in {"none", "dup"} )
        => /\ Len(databases[k]) = 1
           /\ \A d \in Started : Is2xx(resp[d].status)

C3_ReplayAlreadyExists ==
    [][\A d \in Deliveries :
          ( /\ pc[d] = "list"
            /\ pc'[d] # "list"
            /\ err'[d] # "list"
            /\ req[d].sig = "valid"
            /\ req[d].body \in {"ok", "notype"}
            /\ Len(databases[req[d].id]) > 0 )
          => /\ listed'[d] = "found"
             /\ pc'[d] = "done"
             /\ resp'[d] = [status |-> 200, body |-> "User DB already exists"]
             /\ calls'[d].create = 0
             /\ calls'[d].geo = 0]_vars

\* a delivery created the database and a later one was told it exists
C3_Witness ==
    \E d1, d2 \in Deliveries :
        /\ d1 # d2
        /\ IsCreationEventFor(req[d1], "user_a")
        /\ IsCreationEventFor(req[d2], "user_a")
        /\ resp[d1] = [status |-> 200, body |-> "createResult"]
        /\ resp[d2] = [status |-> 200, body |-> "User DB already exists"]
        /\ calls[d2] = [list |-> 1, geo |-> 0, create |-> 0]

\* C4: a request whose signature does not verify, a missing signature
\* header included, is answered 401 and issues no remote call.
C4_SignatureGate ==
    \A d \in Deliveries :
        (pc[d] # "idle" /\ req[d].sig # "valid")
        => /\ pc[d] = "done"
           /\ resp[d] = [status |-> 401, body |-> "Invalid signature"]
           /\ calls[d] = NoCalls

\* one request with a bad signature and one without signature were answered
C4_Witness ==
    \E d1, d2 \in Deliveries :
        /\ req[d1].sig = "invalid" /\ resp[d1].status = 401
        /\ req[d2].sig = "missing" /\ resp[d2].status = 401

\* the raw body cannot be decoded into an event with type and data.id
Malformed(r) == r.body \in {"notjson", "nodata", "noid", "notype"}

\* the outcomes the gateway should not retry
NotToBeRetried(d) ==
    \/ req[d].sig # "valid"
    \/ Malformed(req[d])
    \/ listed[d] = "found"
    \/ err[d] = "dup"
    \/ resp[d].body = "createResult"

\* C5: every outcome that should not be retried (signature invalid,
\* malformed payload, resource already existed, resource created) is
\* answered with a 2xx status.
C5_NoRetryOutcomes2xx ==
    \A d \in Deliveries :
        (pc[d] = "done" /\ NotToBeRetried(d)) => Is2xx(resp[d].status)

\* C6: a create call rejected because the name exists is answered with a
\* 2xx status.
C6_BenignDuplicate ==
    \A d \in Deliveries :
        (pc[d] = "done" /\ calls[d].create = 1 /\ err[d] = "dup")
        => Is2xx(resp[d].status)

\* C7: a validly signed request whose body cannot be decoded is answered
\* with status 400.
C7_Malformed400 ==
    \A d \in Deliveries :
        (pc[d] = "done" /\ req[d].sig = "valid" /\ Malformed(req[d]))
        => resp[d].status = 400

\* C8: when the list call fails the delivery is answered with a 5xx status,
\* it issues no geolocation lookup and no create call, and the step leaves
\* the workspace as it was.
C8_ListFailure ==
    /\ [](\A d \in Deliveries :
            err[d] = "list"
            => /\ pc[d] = "done"
               /\ resp[d].status >= 500
               /\ calls[d] = [list |-> 1, geo |-> 0, create |-> 0])
    /\ [][\A d \in Deliveries :
            (pc[d] = "list" /\ err'[d] = "list")
            => databases' = databases]_vars

\* a delivery whose list call failed while a database existed
C8_Witness ==
    \E d \in Deliveries :
        /\ err[d] = "list"
        /\ resp[d].status = 500
        /\ IsCreationEventFor(req[d], "user_a")
        /\ DbNames(databases) # {}

\* C9: a delivery whose list or create call never returns still ends with
\* a 5xx response, and one whose geolocation lookup never returns still
\* issues the create call with the default region.
C9_BoundedCalls ==
    \A d \in Deliveries :
        /\ (hung[d] /\ pc[d] \in {"list", "create"})
              ~> (pc[d] = "done" /\ resp[d].status >= 500)
        /\ (hung[d] /\ pc[d] = "geo")
              ~> (calls[d].create = 1 /\ dbRegion[d] = DefaultRegion)

\* C10: behind a gateway that redelivers every non-2xx answer, and with
\* list and create calls that eventually succeed, every validly signed,
\* well-formed creation event for k is eventually answered 2xx with a
\* database named k in the workspace.
C10_EventuallyProvisioned ==
    \A d \in Deliveries :
        (pc[d] # "idle" /\ req[d].sig = "valid" /\ req[d].body = "ok")
        ~> ( /\ pc[d] = "done"
             /\ Is2xx(resp[d].status)
             /\ req[d].id \in DbNames(databases) )

\* a delivery that lost the creation race or met a backend error was
\* delivered again and answered 2xx
C10_Witness ==
    \E d \in Deliveries :
        /\ redelivered[d]
        /\ IsCreationEventFor(req[d], "user_a")
        /\ pc[d] = "done"
        /\ Is2xx(resp[d].status)
        /\ Len(databases["user_a"]) = 1

\* a validly signed, well-formed creation event
IsCreationEvent(r) == r.sig = "valid" /\ r.body = "ok"

\* C11: a validly signed creation event handled while no database of its
\* key is listed issues exactly one create call once the region lookup has
\* ended; the call is named data.id, and when it succeeds the database of
\* that name is added and the response is 2xx with the create result.
C11_CreateOnMiss ==
    /\ [](\A d \in Deliveries :
            IsCreationEvent(req[d])
            => /\ calls[d].create <= 1
               /\ (listed[d] = "absent" /\ pc[d] \in {"create", "done"})
                     => calls[d].create = 1)
    /\ [][\A d \in Deliveries :
            ( /\ IsCreationEvent(req[d])
              /\ pc[d] = "create"
              /\ pc'[d] = "done"
              /\ err'[d] = "none" )
            => /\ resp'[d] = [status |-> 200, body |-> "createResult"]
               /\ databases' =
                     [databases EXCEPT ![req[d].id] = Append(@, dbRegion[d])]]_vars

\* a creation event found nothing listed, created and was answered
C11_Witness ==
    \E d \in Deliveries :
        /\ IsCreationEvent(req[d])
        /\ listed[d] = "absent"
        /\ calls[d].create = 1
        /\ resp[d] = [status |-> 200, body |-> "createResult"]
        /\ Len(databases[req[d].id]) = 1

\* C12: without a client IP in the event, or when the lookup fails, the
\* request is not failed and the create call is issued with us-east-1.
C12_LookupFailureAbsorbed ==
    /\ [](\A d \in Deliveries :
            lookup[d] \in {"skipped", "failed"}
            => /\ pc[d] = "create"
               /\ calls[d].create = 1
               /\ dbRegion[d] = "us-east-1"
               /\ resp[d] = NoResponse
               /\ err[d] = "none")
    /\ [][\A d \in Deliveries :
            (pc[d] = "geo" /\ pc'[d] # "geo") => pc'[d] = "create"]_vars
    /\ [][\A d \in Deliveries :
            ( /\ pc[d] = "list"
              /\ listed'[d] = "absent"
              /\ req[d].ip = "absent"
              /\ IsCreationEvent(req[d]) )
            => (pc'[d] = "create" /\ lookup'[d] = "skipped")]_vars

\* one create call follows a failed lookup, another an event without IP
C12_Witness ==
    \E d1, d2 \in Deliveries :
        /\ pc[d1] = "create" /\ lookup[d1] = "failed" /\ calls[d1].geo = 1
        /\ pc[d2] = "create" /\ lookup[d2] = "skipped" /\ calls[d2].geo = 0

\* C13: the region of the create call is eu-west-1 when the lookup gave
\* EU, ap-southeast-2 when it gave OC, and us-east-1 otherwise.
C13_RegionMapping ==
    \A d \in Deliveries :
        pc[d] = "create"
        => dbRegion[d] = ( CASE lookup[d] = "EU" -> "eu-west-1"
                             [] lookup[d] = "OC" -> "ap-southeast-2"
                             [] OTHER -> "us-east-1" )

\* create calls in flight for an EU and an OC answer
C13_Witness ==
    \E d1, d2 \in Deliveries :
        /\ pc[d1] = "create" /\ lookup[d1] = "EU" /\ dbRegion[d1] = "eu-west-1"
        /\ pc[d2] = "create" /\ lookup[d2] = "OC"
        /\ dbRegion[d2] = "ap-southeast-2"

\* C14: the existence check and the create call are not atomic.  Whatever
\* the other deliveries are doing, a creation event issues its list call,
\* and a list call that returns while no database of its key exists is
\* followed by the region lookup and the create call; so two deliveries for
\* one key can both list nothing and both have a create call in flight.
C14_CheckThenActNotAtomic ==
    /\ [][\A d \in Deliveries :
            (pc[d] = "idle" /\ pc'[d] # "idle" /\ IsCreationEvent(req'[d]))
            => (pc'[d] = "list" /\ calls'[d].list = 1)]_vars
    /\ [][\A d \in Deliveries :
            ( /\ pc[d] = "list"
              /\ pc'[d] # "list"
              /\ err'[d] # "list"
              /\ IsCreationEvent(req[d])
              /\ req[d].id \notin DbNames(databases) )
            => /\ listed'[d] = "absent"
               /\ pc'[d] \in {"geo", "create"}]_vars

\* both deliveries for user_a listed nothing and both create calls are out
C14_Witness ==
    \E d1, d2 \in Deliveries :
        /\ d1 # d2
        /\ IsCreationEventFor(req[d1], "user_a")
        /\ IsCreationEventFor(req[d2], "user_a")
        /\ listed[d1] = "absent" /\ listed[d2] = "absent"
        /\ pc[d1] = "create" /\ pc[d2] = "create"
        /\ calls[d1].create = 1 /\ calls[d2].create = 1

\* C15: a delivery for k1 reports 'already exists' or loses its create
\* call to an existing name only when a database named k1 exists, and a
\* step changes the databases of a name only by the create call of a
\* delivery for that name: deliveries for another key k2 play no part.
C15_KeysIndependent ==
    /\ [][\A d \in Deliveries :
            IsCreationEvent(req[d])
            => /\ (listed[d] # "found" /\ listed'[d] = "found")
                     => req[d].id \in DbNames(databases)
               /\ (err[d] # "dup" /\ err'[d] = "dup")
                     => req[d].id \in DbNames(databases)]_vars
    /\ [][\A n \in Names :
            databases'[n] # databases[n]
            => \E d \in Deliveries :
                  /\ pc[d] = "create"
                  /\ pc'[d] = "done"
                  /\ IsCreationEventFor(req[d], n)]_vars

\* deliveries for user_a and user_b both listed nothing and both created
C15_Witness ==
    \E d1, d2 \in Deliveries :
        /\ IsCreationEventFor(req[d1], "user_a")
        /\ IsCreationEventFor(req[d2], "user_b")
        /\ listed[d1] = "absent" /\ listed[d2] = "absent"
        /\ resp[d1] = [status |-> 200, body |-> "createResult"]
        /\ resp[d2] = [status |-> 200, body |-> "createResult"]
        /\ DbNames(databases) = {"user_a", "user_b"}

\* C16: existence is decided from the list returned in this delivery alone:
\* the find gives a database exactly when one of that name is in the
\* workspace as the list call returns, also when an earlier delivery has
\* created it and it was deleted since; the delivery then creates again.
C16_ListIsSoleTruth ==
    [][\A d \in Deliveries :
          ( /\ pc[d] = "list"
            /\ pc'[d] # "list"
            /\ err'[d] # "list"
            /\ IsCreationEvent(req[d]) )
          => /\ (listed'[d] = "found") <=> (req[d].id \in DbNames(databases))
             /\ (req[d].id \notin DbNames(databases))
                   => (calls'[d].geo = 1 \/ calls'[d].create = 1)]_vars

\* user_a was created by one delivery, deleted by somebody else, and
\* created again by another delivery
C16_Witness ==
    \E d1, d2 \in Deliveries :
        /\ d1 # d2
        /\ IsCreationEventFor(req[d1], "user_a")
        /\ IsCreationEventFor(req[d2], "user_a")
        /\ resp[d1].body = "createResult"
        /\ resp[d2].body = "createResult"
        /\ Len(databases["user_a"]) = 1

\* C18: every error caught while a request is processed (body parsing, the
\* find, the list call, the create call) is answered with status 500, and no
\* request that met one is answered with a 2xx status.
C18_ErrorsAre500 ==
    \A d \in Deliveries :
        /\ err[d] # "none"
              => /\ pc[d] = "done"
                 /\ resp[d] = [status |-> 500, body |-> "error"]
        /\ (pc[d] = "done" /\ Is2xx(resp[d].status))
              => /\ err[d] = "none"
                 /\ \/ (listed[d] = "found" /\ calls[d].create = 0)
                    \/ (listed[d] = "absent" /\ calls[d].create = 1)

\* errors of parsing, of the list call and of the create call were answered
C18_Witness ==
    \E d1, d2 \in Deliveries :
        /\ err[d1] \in {"parse", "list"} /\ resp[d1].status = 500
        /\ err[d2] \in {"create", "fatal", "dup"} /\ resp[d2].status = 500

\* C20: a create call that fails for another reason than an existing name
\* creates nothing, and the response status of a failure that passes
\* differs from the status of one that does not.
C20_StatusTellsTransient ==
    /\ [][\A d \in Deliveries :
            (pc[d] = "create" /\ err'[d] \in {"create", "fatal"})
            => databases' = databases]_vars
    /\ [](\A d1, d2 \in Deliveries :
            (err[d1] = "create" /\ err[d2] = "fatal")
            => resp[d1].status # resp[d2].status)

\* C17: when a mandatory configuration value of the module is absent, the
\* process has exited with code 1 once the module is loaded: no request is
\* handled and no remote call, the upsert included, is made.
C17_StartupFatal ==
    ( /\ proc # "unloaded"
      /\ \/ program = "route" /\ ~(RouteVars \subseteq env)
         \/ program = "setup" /\ ~(SetupVars \subseteq env) )
    => /\ proc = "exit1"
       /\ \A d \in Deliveries : pc[d] = "idle" /\ calls[d] = NoCalls
       /\ upsert = "none"
       /\ setupLog = {}

\* the route module exited for the missing workspace id alone
C17_Witness ==
    /\ program = "route"
    /\ env = {"HOOKDECK_WEBHOOK_SECRET", "XATA_API_KEY"}
    /\ proc = "exit1"

\* C19: behind the connection with the filter rule type = user.created,
\* every event that reaches the handler is a user.created event, and every
\* database is created by the create call of such a delivery.
C19_OnlyUserCreated ==
    /\ [](\A d \in Deliveries :
            pc[d] # "idle" => EventType(req[d]) = "user.created")
    /\ [][\A n \in Names :
            databases'[n] # databases[n]
            => \E d \in Deliveries :
                  /\ pc[d] = "create"
                  /\ pc'[d] = "done"
                  /\ EventType(req[d]) = "user.created"
                  /\ req[d].id = n]_vars

\* the databases there are were created for user.created events, none for
\* the session
C19_Witness ==
    /\ \E d \in Deliveries :
          /\ EventType(req[d]) = "user.created"
          /\ resp[d].body = "createResult"
          /\ req[d].id \in DbNames(databases)
    /\ SessionId \notin DbNames(databases)

\* C21: in every version of the handler, when the list call of a delivery
\* of the creation event for k returns while a database named k exists,
\* the delivery issues no create call and answers 200 'User DB already
\* exists'.  (C3 is the statement for the full handler.)
C21_ReplayInEveryVersion ==
    [][\A d \in Deliveries :
          ( /\ pc[d] = "list"
            /\ pc'[d] # "list"
            /\ err'[d] # "list"
            /\ IsCreationEvent(req[d])
            /\ Len(databases[req[d].id]) > 0 )
          => /\ pc'[d] = "done"
             /\ resp'[d] = [status |-> 200, body |-> "User DB already exists"]
             /\ calls'[d].create = 0]_vars

\* C27: clerk/route.ts answers a request whose signature does not verify
\* with 401 and calls neither list nor create for it.
C27_RouteTsSignatureGate ==
    \A d \in Deliveries :
        ( /\ program = "clerk/route.ts"
          /\ pc[d] # "idle"
          /\ req[d].sig # "valid" )
        => /\ pc[d] = "done"
           /\ resp[d].status = 401
           /\ calls[d] = NoCalls

\* C22: whatever an invocation of the full handler has decoded is the raw
\* body it verified before; a request whose signature does not verify is
\* never decoded, and one that reached a remote call or the parse was
\* verified on those bytes.
C22_VerifyThenDecode ==
    \A d \in Deliveries :
        /\ event[d] # NoBody
           => /\ req[d].sig = "valid"
              /\ verified[d] = event[d]
              /\ event[d] = RawBody(req[d])
        /\ (pc[d] \in {"list", "geo", "create"}
              \/ calls[d] # NoCalls \/ err[d] # "none")
           => verified[d] = RawBody(req[d]) /\ req[d].sig = "valid"

\* a verified body that does not parse was decoded, and a request with a
\* bad signature over the same kind of body was not
C22_Witness ==
    \E d1, d2 \in Deliveries :
        /\ req[d1].sig = "valid" /\ err[d1] = "parse"
        /\ event[d1] = RawBody(req[d1])
        /\ req[d2].sig = "invalid" /\ pc[d2] = "done"
        /\ event[d2] = NoBody

\* the remote calls of delivery d that have been issued and not answered
InFlight(d) ==
    IF pc[d] \in {"list", "geo", "create"}
    THEN calls[d].list + calls[d].geo + calls[d].create
         - Cardinality({c \in {"list", "geo", "create"} :
                          \/ c = "list" /\ pc[d] \in {"geo", "create"}
                          \/ c = "geo" /\ pc[d] = "create" /\ calls[d].geo > 0})
    ELSE 0

\* C23: within one delivery each remote call is issued at most once and at
\* most one is in flight; the lookup and the create are issued only by the
\* step in which the preceding call returns, the list having returned
\* without a database named data.id.
C23_CallsInSequence ==
    /\ [](\A d \in Deliveries :
            /\ calls[d].list <= 1 /\ calls[d].geo <= 1 /\ calls[d].create <= 1
            /\ InFlight(d) <= 1
            /\ calls[d].geo + calls[d].create > 0
               => calls[d].list = 1 /\ listed[d] = "absent")
    /\ [][\A d \in Deliveries :
            /\ calls'[d].geo > calls[d].geo
               => /\ pc[d] = "list" /\ ~hung[d]
                  /\ req[d].id \notin DbNames(databases)
            /\ calls'[d].create > calls[d].create
               => /\ ~hung[d]
                  /\ \/ pc[d] = "geo"
                     \/ /\ pc[d] = "list"
                        /\ calls[d].geo = 0
                        /\ req[d].id \notin DbNames(databases)]_vars

\* a delivery went through list, lookup and create, one call at a time
C23_Witness ==
    \E d \in Deliveries :
        /\ pc[d] = "create"
        /\ calls[d] = [list |-> 1, geo |-> 1, create |-> 1]
        /\ InFlight(d) = 1

\* the four answers of the full handler
Answers ==
    { [status |-> 401, body |-> "Invalid signature"],
      [status |-> 200, body |-> "User DB already exists"],
      [status |-> 200, body |-> "createResult"],
      [status |-> 500, body |-> "error"] }

\* C24: an invocation whose remote calls all return or fail ends; it has no
\* response before its end, one of the four answers at its end, and after
\* that it neither answers again nor issues a remote call.
C24_OneTerminalResponse ==
    /\ \A d \in Deliveries : (pc[d] # "idle") ~> (pc[d] = "done")
    /\ [](\A d \in Deliveries :
            IF pc[d] = "done" THEN resp[d] \in Answers
                              ELSE resp[d] = NoResponse)
    /\ [][\A d \in Deliveries :
            pc[d] = "done"
            => /\ pc'[d] = "done"
               /\ resp'[d] = resp[d]
               /\ calls'[d] = calls[d]]_vars

\* every delivery has ended, one with the create result and one with 500
C24_Witness ==
    /\ \A d \in Deliveries : pc[d] = "done"
    /\ \E d \in Deliveries : resp[d].status = 500
    /\ \E d \in Deliveries : resp[d].body = "createResult"

\* C25: when the list call of a delivery whose event carries data.id = k
\* returns, the find reports a database exactly when the workspace holds
\* one named k; without one the delivery goes on to the lookup or the
\* create, whatever other databases there are.
C25_ExactNameMatch ==
    [][\A d \in Deliveries :
          ( /\ pc[d] = "list"
            /\ pc'[d] # "list"
            /\ err'[d] # "list"
            /\ req[d].body \in {"ok", "notype"} )
          => /\ listed'[d] = "found" <=> Len(databases[req[d].id]) > 0
             /\ listed'[d] = "absent" <=> Len(databases[req[d].id]) = 0
             /\ Len(databases[req[d].id]) = 0
                => /\ pc'[d] \in {"geo", "create"}
                   /\ calls'[d].geo + calls'[d].create = 1]_vars

\* the database of user_b was created while a database of another name
\* existed
C25_Witness ==
    \E d \in Deliveries :
        /\ req[d].id = "user_b"
        /\ listed[d] = "absent"
        /\ resp[d].body = "createResult"
        /\ {"user_a", "user_b"} \subseteq DbNames(databases)

\* C26: a validly signed payload without type or without data.id is
\* rejected before the existence check: no list call and no create call is
\* issued for it.
C26_MalformedBeforeList ==
    \A d \in Deliveries :
        ( /\ pc[d] # "idle"
          /\ req[d].sig = "valid"
          /\ req[d].body \in {"notype", "noid", "nodata"} )
        => calls[d].list = 0 /\ calls[d].create = 0

\* C29: the step that ends a delivery in 401, in 200 'User DB already
\* exists', or in 500 after a failed parse or list call leaves the
\* workspace as it is, and the delivery has issued no create call.
C29_NoEffectOutcomes ==
    [][\A d \in Deliveries :
          ( /\ pc[d] # "done"
            /\ pc'[d] = "done"
            /\ \/ resp'[d].status = 401
               \/ resp'[d].body = "User DB already exists"
               \/ resp'[d].status = 500 /\ err'[d] \in {"parse", "list"} )
          => /\ databases' = databases
             /\ calls'[d].create = 0]_vars

\* deliveries ended in 401 and in 500 after a failed list, next to a
\* database that another delivery created
C29_Witness ==
    /\ \E d \in Deliveries : err[d] = "list" /\ pc[d] = "done"
    /\ \E d \in Deliveries : resp[d].status = 401
    /\ DbNames(databases) # {}

RegionOfLookup(l) ==
    IF l \in {"unset", "skipped", "failed"} THEN DefaultRegion ELSE RegionFor(l)

\* C28: what a step of a delivery answers and does to the workspace is a
\* function of that delivery's request, of the answer of the call that
\* returns and of the workspace at that moment; so two deliveries of the
\* same request that met the same answers have the same response, whatever
\* was handled before them.
C28_Stateless ==
    /\ [](\A d1, d2 \in Deliveries :
            ( /\ pc[d1] = "done" /\ pc[d2] = "done"
              /\ req[d1] = req[d2]
              /\ listed[d1] = listed[d2]
              /\ err[d1] = err[d2] )
            => resp[d1] = resp[d2])
    /\ [][\A d \in Deliveries :
            /\ (pc[d] = "idle" /\ pc'[d] # "idle")
               => CASE req'[d].sig # "valid" -> resp'[d].status = 401
                    [] req'[d].body = "notjson" -> resp'[d].status = 500
                    [] OTHER -> pc'[d] = "list"
            /\ (pc[d] = "list" /\ pc'[d] # "list" /\ err'[d] # "list")
               => LET f == FindDb(DbNames(databases), req[d]) IN
                  CASE f = "found" ->
                         resp'[d].body = "User DB already exists"
                    [] f = "throw" -> resp'[d].status = 500
                    [] OTHER -> \/ pc'[d] \in {"geo", "create"}
                                \/ resp'[d].status = 500 /\ ~HasData(req[d])
            /\ pc'[d] = "create"
               => dbRegion'[d] = RegionOfLookup(lookup'[d])
            /\ (pc[d] = "create" /\ pc'[d] = "done"
                  /\ err'[d] \notin {"create", "fatal"})
               => LET res == BackendCreate(databases, CreateName(req[d]),
                                           RegionOfLookup(lookup[d])) IN
                  /\ databases' = res.dbs
                  /\ resp'[d].status = IF res.ok THEN 200 ELSE 500]_vars

\* the same request was handled twice with the same answers, the second
\* time after the first database had been deleted by somebody else
C28_Witness ==
    \E d1, d2 \in Deliveries :
        /\ d1 # d2
        /\ req[d1] = req[d2]
        /\ IsCreationEvent(req[d1])
        /\ listed[d1] = "absent" /\ listed[d2] = "absent"
        /\ resp[d1].body = "createResult"
        /\ resp[d2].body = "createResult"

C32_SetupLogsFollowUpsert ==
    /\ "Hookdeck connection setup complete" \in setupLog => upsert = "ok"
    /\ upsert = "failed" => "Hookdeck connection setup failed" \in setupLog

====
